---- MODULE Spec2Model ----
(***************************************************************************)
(* Model of app.py: the quiz session of the MZ test.                       *)
(*                                                                         *)
(* A text is a sequence of one-character strings (<<"a", " ">>), so that   *)
(* strip() and lower() do something.  The two question types of the        *)
(* source, "주관식" (subjective) and "객관식" (multiple choice), are the     *)
(* one-token texts Subjective and MultipleChoice.  A field name of the CSV *)
(* header is a sequence of tokens, the byte-order mark being the token     *)
(* "BOM".  Python's None is the value None.                                *)
(***************************************************************************)
EXTENDS Integers, Sequences, FiniteSets, TLC

VARIABLES
    file,       \* mz_test.csv as it is on disk: [exists, lines]
    questions,  \* main's local `questions` in the latest script run
    page,       \* st.session_state.page
    answers,    \* st.session_state.answers: a function from id texts to texts
    username,   \* st.session_state.username
    shown,      \* what the latest script run rendered
    last,       \* the user event that triggered the latest script run
    edits       \* how often the source file was edited since the session began

vars == <<file, questions, page, answers, username, shown, last, edits>>

----------------------------------------------------------------------------
(* Bounds *)

MaxRows == 3        \* data lines of the question source
MaxEdits == 1       \* edits of the question source during one session
MaxLoadRows == 3    \* data lines of a source given to load_questions alone
MaxLen == 2         \* characters of a text given to judge alone
MaxScore == 20      \* the largest score given to result_tier alone

----------------------------------------------------------------------------
(* Python values *)

None == <<"None">>

Subjective == <<"S">>
MultipleChoice == <<"M">>

\* x or ""
OrEmpty(x) == IF x = None \/ x = <<>> THEN <<>> ELSE x

Whitespace == {" "}

RECURSIVE lstrip(_, _)
lstrip(s, chars) ==
    IF s # <<>> /\ Head(s) \in chars THEN lstrip(Tail(s), chars) ELSE s

RECURSIVE rstrip(_, _)
rstrip(s, chars) ==
    IF s # <<>> /\ s[Len(s)] \in chars
    THEN rstrip(SubSeq(s, 1, Len(s) - 1), chars)
    ELSE s

strip(s) == rstrip(lstrip(s, Whitespace), Whitespace)

LowerChar(c) ==
    CASE c = "A" -> "a"
      [] c = "B" -> "b"
      [] c = "C" -> "c"
      [] c = "X" -> "x"
      [] c = "K" -> "k"
      [] c = "Y" -> "y"
      [] OTHER -> c

lower(s) == [i \in 1..Len(s) |-> LowerChar(s[i])]

Digits == {"0", "1", "2", "3", "4", "5", "6", "7", "8", "9"}

DigitVal(c) ==
    CASE c = "0" -> 0 [] c = "1" -> 1 [] c = "2" -> 2 [] c = "3" -> 3
      [] c = "4" -> 4 [] c = "5" -> 5 [] c = "6" -> 6 [] c = "7" -> 7
      [] c = "8" -> 8 [] c = "9" -> 9

RECURSIVE DigitsVal(_)
DigitsVal(s) ==
    IF s = <<>> THEN 0
    ELSE 10 * DigitsVal(SubSeq(s, 1, Len(s) - 1)) + DigitVal(s[Len(s)])

\* The digits of int(x): x stripped, without its sign.
IntBody(x) ==
    LET t == strip(x)
    IN  IF t # <<>> /\ Head(t) \in {"+", "-"} THEN Tail(t) ELSE t

\* int(x) does not raise ValueError.
IntParses(x) ==
    /\ x # None
    /\ IntBody(x) # <<>>
    /\ \A i \in 1..Len(IntBody(x)) : IntBody(x)[i] \in Digits

int(x) ==
    IF Head(strip(x)) = "-" THEN 0 - DigitsVal(IntBody(x)) ELSE DigitsVal(IntBody(x))

----------------------------------------------------------------------------
(* load_questions *)

Sentinel == 1000000000

safe_int(x) == IF IntParses(x) THEN int(x) ELSE Sentinel

SortKey(q) == safe_int(q.id)

\* list.sort(key=...): a stable sort, here by insertion after the last
\* element whose key is not greater.
RECURSIVE InsertSorted(_, _)
InsertSorted(sorted, q) ==
    IF sorted = <<>> THEN <<q>>
    ELSE IF SortKey(sorted[Len(sorted)]) <= SortKey(q)
         THEN Append(sorted, q)
         ELSE Append(InsertSorted(SubSeq(sorted, 1, Len(sorted) - 1), q),
                     sorted[Len(sorted)])

RECURSIVE SortItems(_)
SortItems(items) ==
    IF items = <<>> THEN <<>>
    ELSE InsertSorted(SortItems(SubSeq(items, 1, Len(items) - 1)),
                      items[Len(items)])

\* A faulty IsBlankLine: a line of spaces is kept.
IsBlankLineEmptyOnly(ln) == ln = <<>>

\* ln.strip() != "": a line is its sequence of cells; a line without a comma
\* is one cell.
IsBlankLine(ln) == ln = <<>> \/ (Len(ln) = 1 /\ strip(ln[1]) = <<>>)

NonBlank(raw) == SelectSeq(raw, LAMBDA ln : ~IsBlankLine(ln))

LastIndex(s, x) ==
    LET I == {i \in 1..Len(s) : s[i] = x}
    IN  CHOOSE i \in I : \A j \in I : j <= i

\* One row of csv.DictReader: the cells by field name, None for a field the
\* line is too short for.
DictRow(fieldnames, cells) ==
    [fn \in {fieldnames[i] : i \in 1..Len(fieldnames)} |->
        IF LastIndex(fieldnames, fn) <= Len(cells)
        THEN cells[LastIndex(fieldnames, fn)]
        ELSE None]

CleanNames(fieldnames) ==
    [i \in 1..Len(fieldnames) |-> lstrip(OrEmpty(fieldnames[i]), {"BOM"})]

FieldMap(fieldnames) ==
    LET clean_names == CleanNames(fieldnames)
    IN  [clean \in {clean_names[i] : i \in 1..Len(clean_names)} |->
            fieldnames[LastIndex(clean_names, clean)]]

get(field_map, row, key) ==
    LET real == IF key \in DOMAIN field_map THEN field_map[key] ELSE key
        cell == IF real \in DOMAIN row THEN row[real] ELSE <<>>
    IN  strip(OrEmpty(cell))

Item(field_map, r) ==
    [id       |-> get(field_map, r, <<"id">>),
     question |-> get(field_map, r, <<"question">>),
     type     |-> get(field_map, r, <<"type">>),
     image    |-> get(field_map, r, <<"image">>),
     choices  |-> <<get(field_map, r, <<"choice1">>),
                    get(field_map, r, <<"choice2">>),
                    get(field_map, r, <<"choice3">>)>>,
     answer   |-> get(field_map, r, <<"answer">>)]

\* The result of load_questions: error = "none" and the sorted items, or the
\* st.error message after which st.stop() ends the script run.
load_questions(f) ==
    IF ~f.exists THEN [error |-> "missing", items |-> <<>>]
    ELSE LET lines == NonBlank(f.lines)
         IN  IF lines = <<>> THEN [error |-> "empty", items |-> <<>>]
             ELSE LET fieldnames == Head(lines)
                      field_map == FieldMap(fieldnames)
                      dr == Tail(lines)
                      items == [i \in 1..Len(dr) |->
                                   Item(field_map, DictRow(fieldnames, dr[i]))]
                  IN  [error |-> "none", items |-> SortItems(items)]

----------------------------------------------------------------------------
(* judge, result_tier *)

\* A faulty judge: the case is never ignored.
judge_exact(user_answer, correct_answer, qtype) ==
    strip(OrEmpty(user_answer)) = strip(OrEmpty(correct_answer))

judge(user_answer, correct_answer, qtype) ==
    LET ua == strip(OrEmpty(user_answer))
        ca == strip(OrEmpty(correct_answer))
    IN  IF qtype = Subjective THEN lower(ua) = lower(ca) ELSE ua = ca

\* A faulty result_tier: the score 5 is not in the first tier.
result_tier_below(score) ==
    IF score < 5 THEN [img |-> "result1.png", msg |-> "tier 1"]
    ELSE IF 6 <= score /\ score <= 10 THEN [img |-> "result2.png", msg |-> "tier 2"]
    ELSE IF 11 <= score /\ score <= 15 THEN [img |-> "result3.png", msg |-> "tier 3"]
    ELSE [img |-> "result4.png", msg |-> "tier 4"]

result_tier(score) ==
    IF score <= 5 THEN [img |-> "result1.png", msg |-> "tier 1"]
    ELSE IF 6 <= score /\ score <= 10 THEN [img |-> "result2.png", msg |-> "tier 2"]
    ELSE IF 11 <= score /\ score <= 15 THEN [img |-> "result3.png", msg |-> "tier 3"]
    ELSE [img |-> "result4.png", msg |-> "tier 4"]

----------------------------------------------------------------------------
(* What one script run of main renders *)

NoForm == [key |-> None, widget |-> "none", options |-> <<>>]

NoScreen ==
    [kind |-> "none", msg |-> "none", name |-> <<>>, form |-> NoForm,
     no |-> 0, total |-> 0, correct |-> 0, rows |-> <<>>, tier |-> ""]

\* load_questions ended the run with st.error and st.stop.
ErrorScreen(error) == [NoScreen EXCEPT !.kind = "error", !.msg = error]

StartScreen(name) == [NoScreen EXCEPT !.kind = "start", !.name = name]

IsChoiceType(q) == strip(OrEmpty(q.type)) = MultipleChoice

IsSubjectiveType(q) == strip(OrEmpty(q.type)) = Subjective

\* choices = [c for c in (q.get("choices") or []) if c]
Choices(q) == SelectSeq(q.choices, LAMBDA c : c # <<>>)

\* The form of a question page: its key and its one input widget.
Form(q) ==
    IF IsChoiceType(q)
    THEN [key |-> q.id, widget |-> "radio", options |-> Choices(q)]
    ELSE [key |-> q.id, widget |-> "text", options |-> <<>>]

QuestionScreen(qs, p, msg) ==
    [NoScreen EXCEPT !.kind = "question", !.msg = msg, !.form = Form(qs[p]),
                     !.no = p, !.total = Len(qs)]

\* answers.get(qid, "")
Lookup(ans, qid) == IF qid \in DOMAIN ans THEN ans[qid] ELSE <<>>

Judged(ans, q) == judge(Lookup(ans, q.id), q.answer, q.type)

ResultRow(ans, q) ==
    [no |-> int(q.id), question |-> q.question, my |-> Lookup(ans, q.id),
     answer |-> q.answer, mark |-> IF Judged(ans, q) THEN "O" ELSE "X"]

\* int(qid) raises ValueError while the rows are built.
RowsRaise(qs) == \E i \in 1..Len(qs) : ~IntParses(qs[i].id)

ResultScreen(qs, ans, name) ==
    IF RowsRaise(qs)
    THEN [NoScreen EXCEPT !.kind = "crash", !.msg = "ValueError"]
    ELSE LET correct == Cardinality({i \in 1..Len(qs) : Judged(ans, qs[i])})
         IN  [NoScreen EXCEPT !.kind = "result",
                              !.name = strip(name),
                              !.total = Len(qs),
                              !.correct = correct,
                              !.rows = [i \in 1..Len(qs) |-> ResultRow(ans, qs[i])],
                              !.tier = result_tier(correct).img,
                              !.msg = result_tier(correct).msg]

\* The page a run without a widget event renders.
Render(qs, p, ans, name) ==
    IF p = 0 THEN StartScreen(name)
    ELSE IF 1 <= p /\ p <= Len(qs) THEN QuestionScreen(qs, p, "none")
    ELSE ResultScreen(qs, ans, name)

----------------------------------------------------------------------------
(* The question sources and the user's inputs *)

Header ==
    << <<"id">>, <<"question">>, <<"type">>, <<"image">>,
       <<"choice1">>, <<"choice2">>, <<"choice3">>, <<"answer">> >>

\* The header of a source that was saved with a second byte-order mark.
BomHeader == <<<<"BOM", "id">>>> \o Tail(Header)

DataLines ==
    { \* " 1,q,S,,,,,a"
      << <<" ", "1">>, <<"q">>, Subjective, <<>>, <<>>, <<>>, <<>>, <<"a">> >>,
      \* "2,q,M,,a,b,c,b"
      << <<"2">>, <<"q">>, MultipleChoice, <<>>, <<"a">>, <<"b">>, <<"c">>, <<"b">> >>,
      \* "3,q,S ,,,,,c"
      << <<"3">>, <<"q">>, Subjective \o <<" ">>, <<>>, <<>>, <<>>, <<>>, <<"c">> >>,
      \* "x,q": an id that is no integer, the other fields missing
      << <<"x">>, <<"q">> >>,
      \* "1,,M,,a,,,a": the id of the first line again
      << <<"1">>, <<>>, MultipleChoice, <<>>, <<"a">>, <<>>, <<>>, <<"a">> >>,
      \* "2,q,M,,, ,,": a multiple-choice question without a choice
      << <<"2">>, <<"q">>, MultipleChoice, <<>>, <<>>, <<" ">>, <<>>, <<>> >> }

SeqsUpTo(S, n) == UNION {[1..k -> S] : k \in 0..n}

Missing == [exists |-> FALSE, lines |-> <<>>]

SourceOf(lines) == [exists |-> TRUE, lines |-> lines]

Files ==
    {Missing, SourceOf(<<>>), SourceOf(<< <<>>, <<<<" ">>>> >>)}
        \cup {SourceOf(<<Header>> \o rows) : rows \in SeqsUpTo(DataLines, MaxRows)}
        \cup {SourceOf(<< <<>>, BomHeader, <<<<" ">>>> >> \o rows \o << <<>> >>) :
                rows \in SeqsUpTo(DataLines, 1)}

TextInputs == {<<>>, <<" ">>, <<" ", "A", " ">>, <<"c">>}

Names == {<<>>, <<" ", "k">>}

\* What the input widget of a rendered form can hold when the form is
\* submitted: st.radio(index=None) one of its options or None, st.text_input
\* any text.
Inputs(form) ==
    IF form.widget = "radio"
    THEN {form.options[i] : i \in 1..Len(form.options)} \cup {None}
    ELSE TextInputs

\* The value of a widget that was not on the page before this run.
Default(form) == IF form.widget = "radio" THEN None ELSE <<>>

----------------------------------------------------------------------------
(* The session: one action is one user event and the script runs it causes *)

Event(kind, value) == [kind |-> kind, value |-> value]

Init ==
    /\ file \in Files
    /\ edits = 0
    /\ page = 0
    /\ answers = <<>>
    /\ username = <<>>
    /\ last = Event("open", <<>>)
    /\ questions = load_questions(file).items
    /\ shown = IF load_questions(file).error # "none"
               THEN ErrorScreen(load_questions(file).error)
               ELSE StartScreen(<<>>)

\* load_questions called st.stop(): nothing after line 200 runs.
Halt(error) ==
    /\ shown' = ErrorScreen(error)
    /\ UNCHANGED <<questions, page, answers, username>>

\* A run in which no button reports a click.
NoEvent(qs) ==
    /\ questions' = qs
    /\ shown' = Render(qs, page, answers, username)
    /\ UNCHANGED <<page, answers, username>>

\* A faulty FirstPage: the start action opens the second question.
FirstPageSecond == 1 + 1

FirstPage == 1

Start ==
    /\ shown.kind = "start"
    /\ last' = Event("start", <<>>)
    /\ UNCHANGED <<file, edits>>
    /\ \E ld \in {load_questions(file)} :
           IF ld.error # "none" THEN Halt(ld.error)
           ELSE /\ questions' = ld.items
                /\ username' = shown.name
                /\ page' = FirstPage
                /\ UNCHANGED answers
                /\ shown' = Render(ld.items, page', answers', username')

SetName(n) ==
    /\ shown.kind = "start"
    /\ n # shown.name
    /\ last' = Event("name", n)
    /\ UNCHANGED <<file, edits>>
    /\ \E ld \in {load_questions(file)} :
           IF ld.error # "none" THEN Halt(ld.error)
           ELSE /\ questions' = ld.items
                /\ username' = n
                /\ UNCHANGED <<page, answers>>
                /\ shown' = Render(ld.items, page', answers', username')

\* A faulty NoChoice: only the empty text counts as no selection.
NoChoiceEmptyOnly(q, answer) == IsChoiceType(q) /\ answer = <<>>

\* (q.get("type") or "").strip() == "객관식" and not answer
NoChoice(q, answer) == IsChoiceType(q) /\ OrEmpty(answer) = <<>>

\* A faulty is_blank_subjective: the answer is not stripped.
is_blank_unstripped(q, answer) ==
    IsSubjectiveType(q) /\ OrEmpty(answer) = <<>>

is_blank_subjective(q, answer) ==
    IsSubjectiveType(q) /\ strip(OrEmpty(answer)) = <<>>

\* Faulty variants of Record: the answer is not stripped; the map is replaced.
RecordRaw(ans, q, answer) ==
    [k \in DOMAIN ans \cup {q.id} |->
        IF k = q.id THEN OrEmpty(answer) ELSE ans[k]]

RecordOnly(ans, q, answer) == [k \in {q.id} |-> strip(OrEmpty(answer))]

\* ss.answers[str(q["id"])] = (answer or "").strip()
Record(ans, q, answer) ==
    [k \in DOMAIN ans \cup {q.id} |->
        IF k = q.id THEN strip(OrEmpty(answer)) ELSE ans[k]]

\* A faulty NextPage: a page is skipped.
NextPageSkip(p) == p + 2

\* ss.page += 1
NextPage(p) == p + 1

Warn(qs, msg) ==
    /\ questions' = qs
    /\ shown' = QuestionScreen(qs, page, msg)
    /\ UNCHANGED <<page, answers, username>>

Submit(a) ==
    /\ shown.kind = "question"
    /\ last' = Event("submit", a)
    /\ UNCHANGED <<file, edits>>
    /\ \E ld \in {load_questions(file)}, qs \in {load_questions(file).items} :
           IF ld.error # "none" THEN Halt(ld.error)
           ELSE IF ~(1 <= page /\ page <= Len(qs)) THEN NoEvent(qs)
           ELSE LET q == qs[page]
                    \* the button of the form with the rendered key was clicked
                    submitted == Form(q).key = shown.form.key
                    answer == IF Form(q) = shown.form THEN a ELSE Default(Form(q))
                IN  IF ~submitted THEN NoEvent(qs)
                    ELSE IF NoChoice(q, answer) THEN Warn(qs, "choose")
                    ELSE IF is_blank_subjective(q, answer) THEN Warn(qs, "enter")
                    ELSE /\ questions' = qs
                         /\ answers' = Record(answers, q, answer)
                         /\ page' = NextPage(page)
                         /\ UNCHANGED username
                         /\ shown' = Render(qs, page', answers', username')

\* A faulty RestartPage: back to the first question.
RestartPageFirst == 0 + 1

RestartPage == 0

\* A faulty RestartAnswers: the answers are kept.
RestartAnswersKept == answers

RestartAnswers == <<>>

Restart ==
    /\ shown.kind = "result"
    /\ last' = Event("restart", <<>>)
    /\ UNCHANGED <<file, edits>>
    /\ \E ld \in {load_questions(file)}, qs \in {load_questions(file).items} :
           IF ld.error # "none" THEN Halt(ld.error)
           ELSE IF page > Len(qs) /\ ~RowsRaise(qs)
           THEN /\ questions' = qs
                /\ page' = RestartPage
                /\ answers' = RestartAnswers
                /\ UNCHANGED username
                /\ shown' = Render(qs, page', answers', username')
           ELSE NoEvent(qs)

\* A script run that no widget of the page caused (the browser's rerun).
Rerun ==
    /\ last' = Event("rerun", <<>>)
    /\ UNCHANGED <<file, edits>>
    /\ \E ld \in {load_questions(file)} :
           IF ld.error # "none" THEN Halt(ld.error) ELSE NoEvent(ld.items)

\* What an edit of mz_test.csv leaves: the file is removed, or it loses its
\* last line.
Edited(f) ==
    ({Missing} \cup
        IF f.lines # <<>>
        THEN {SourceOf(SubSeq(f.lines, 1, Len(f.lines) - 1))}
        ELSE {}) \ {f}

\* Somebody edits mz_test.csv while the session is open.
EditSource ==
    /\ edits < MaxEdits
    /\ edits' = edits + 1
    /\ file' \in Edited(file)
    /\ UNCHANGED <<questions, page, answers, username, shown, last>>

Next ==
    \/ Start
    \/ \E n \in Names : SetName(n)
    \/ \E a \in Inputs(shown.form) : Submit(a)
    \/ Restart
    \/ Rerun

Spec == Init /\ [][Next]_vars

NextEdit == Next \/ EditSource

SpecEdit == Init /\ [][NextEdit]_vars

----------------------------------------------------------------------------
(* load_questions, judge and result_tier on their own inputs *)

LoadLines ==
    { \* " 1,q,S,,,,,a"
      << <<" ", "1">>, <<"q">>, Subjective, <<>>, <<>>, <<>>, <<>>, <<"a">> >>,
      \* "-1, q ,S": a negative id, fields missing
      << <<"-", "1">>, <<" ", "q", " ">>, Subjective >>,
      \* "2000000000,q,M,,a,b,c,b": an id above the sentinel
      << <<"2", "0", "0", "0", "0", "0", "0", "0", "0", "0">>, <<"q">>,
         MultipleChoice, <<>>, <<"a">>, <<"b">>, <<"c">>, <<"b">> >>,
      \* "x,q": an id that is no integer
      << <<"x">>, <<"q">> >>,
      \* ",r": no id
      << <<>>, <<"r">> >> }

\* The blank line put after line i of a source (before the header for i = 0).
BlankLineAt(i) == IF i % 2 = 0 THEN <<>> ELSE <<<<" ", " ">>>>

\* lines[(i+1)..] with a blank line after every line whose index is in gaps.
RECURSIVE Weave(_, _, _)
Weave(lines, gaps, i) ==
    (IF i \in gaps THEN <<BlankLineAt(i)>> ELSE <<>>)
        \o (IF i = Len(lines) THEN <<>>
            ELSE <<lines[i + 1]>> \o Weave(lines, gaps, i + 1))

\* Where blank lines are put: at most two of the places before, between and
\* after the n lines of a source.
Gaps(n) == {gaps \in SUBSET (0..n) : Cardinality(gaps) <= 2}

LoadFiles ==
    {Missing, SourceOf(<<>>), SourceOf(<< <<>>, <<<<" ">>>> >>)}
        \cup UNION {{SourceOf(Weave(<<h>> \o rows, gaps, 0)) :
                        h \in {Header, BomHeader},
                        gaps \in Gaps(Len(rows) + 1)} :
                     rows \in SeqsUpTo(LoadLines, MaxLoadRows)}

Letters == {" ", "a", "A", "b"}

JudgeTexts ==
    SeqsUpTo(Letters, MaxLen)
        \cup {None, <<"Y", "o", "l", "o">>, <<"y", "o", "l", "o">>,
              <<" ", "y", "o", "l", "o", " ">>}

\* The types judge is given: the two of the source, none, and another text.
JudgeTypes == {Subjective, MultipleChoice, <<>>, Subjective \o <<" ">>}

Scores == (0 - 2)..MaxScore

InitCalls ==
    /\ file = Missing
    /\ edits = 0
    /\ page = 0
    /\ answers = <<>>
    /\ username = <<>>
    /\ last = Event("none", <<>>)
    /\ questions = <<>>
    /\ shown = NoScreen

\* The first script run of a session on the source f, up to line 209.
Load(f) ==
    /\ last.kind = "none"
    /\ last' = Event("open", <<>>)
    /\ file' = f
    /\ UNCHANGED <<edits, page, answers, username>>
    /\ \E ld \in {load_questions(f)} :
           /\ questions' = ld.items
           /\ shown' = IF ld.error # "none" THEN ErrorScreen(ld.error)
                       ELSE StartScreen(username)

\* One row of the result table: ok = judge(my, answer, type).
JudgeAnswer(my, answer, type) ==
    /\ last.kind = "none"
    /\ last' = Event("judge", <<>>)
    /\ shown' = [NoScreen EXCEPT
                    !.kind = "row",
                    !.rows = <<[my |-> my, answer |-> answer, type |-> type,
                                mark |-> IF judge(my, answer, type)
                                         THEN "O" ELSE "X"]>>]
    /\ UNCHANGED <<file, edits, questions, page, answers, username>>

\* The tier of the result page: img_name, msg = result_tier(correct).
ShowTier(correct) ==
    /\ last.kind = "none"
    /\ last' = Event("tier", <<>>)
    /\ shown' = [NoScreen EXCEPT !.kind = "tier",
                                 !.correct = correct,
                                 !.tier = result_tier(correct).img,
                                 !.msg = result_tier(correct).msg]
    /\ UNCHANGED <<file, edits, questions, page, answers, username>>

\* One call from the state in which nothing has run yet.
NextCalls ==
    \/ /\ last.kind = "none"
       /\ \E f \in LoadFiles : Load(f)
    \/ /\ last.kind = "none"
       /\ \E my \in JudgeTexts, answer \in JudgeTexts, type \in JudgeTypes :
             JudgeAnswer(my, answer, type)
    \/ /\ last.kind = "none"
       /\ \E correct \in Scores : ShowTier(correct)

SpecCalls == InitCalls /\ [][NextCalls]_vars

----------------------------------------------------------------------------
(* Properties of the session *)

N == Len(questions)

\* The id of the question at position i of the loaded list.
IdAt(i) == questions[i].id

DistinctIds == \A i, j \in 1..N : IdAt(i) = IdAt(j) => i = j

\* t is v without its surrounding spaces, said without strip.
IsTrimOf(t, v) ==
    /\ t # <<>> => (t[1] # " " /\ t[Len(t)] # " ")
    /\ \E i \in 0..Len(v) :
          /\ i + Len(t) <= Len(v)
          /\ SubSeq(v, i + 1, i + Len(t)) = t
          /\ \A k \in (1..i) \cup ((i + Len(t) + 1)..Len(v)) : v[k] = " "

IsBlank(v) == \A k \in 1..Len(v) : v[k] = " "

\* The step is a submission on the question page of question n = page.
SubmitStep ==
    /\ last'.kind = "submit"
    /\ shown.kind = "question"
    /\ page \in 1..N

\* C1: in every reachable state page is an integer in 0..N+1, for every list
\* the loader returns (N = 0 too): page 0 is the start screen, pages 1..N show
\* the question of that position, page N+1 is the result screen.
C1_PageRange ==
    /\ page \in 0..(N + 1)
    /\ page = 0 => shown.kind \in {"start", "error"}
    /\ page \in 1..N => (shown.kind = "question" /\ shown.no = page
                            /\ shown.form.key = IdAt(page))
    /\ page = N + 1 => shown.kind \in {"result", "crash"}

\* C1 witness: the result page of a source with a header and no data line.
C1_Witness == N = 0 /\ page = 1 /\ shown.kind = "result" /\ file.exists

\* C2: every step leaves page unchanged, or increases it by exactly 1 (the
\* start action, a successful submission), or resets it to 0 by the restart
\* action taken on the result page.
C2_PageSteps ==
    [][ \/ page' = page
        \/ page' = page + 1 /\ last'.kind \in {"start", "submit"}
        \/ page' = 0 /\ last'.kind = "restart" /\ shown.kind = "result"
                     /\ page = N + 1 ]_vars

\* C2 witness: a restart has taken the session of three questions from the
\* result page back to page 0.
C2_Witness == last.kind = "restart" /\ page = 0 /\ N = 3

\* An answer the validation accepts: a selected choice of a multiple-choice
\* question, a non-blank text of a subjective one.
ValidAnswer(q, v) ==
    \/ q.type = MultipleChoice /\ v # None
    \/ q.type = Subjective /\ v # None /\ ~IsBlank(v)

\* C3: a submit on Question(n) with a valid answer sets answers[id of n] to
\* the submitted value without its surrounding whitespace, sets page to n+1
\* (the result page when n = N) and leaves the other entries of answers and
\* the username unchanged.
C3_ValidSubmit ==
    [][ (SubmitStep /\ ValidAnswer(questions[page], last'.value)) =>
            /\ DOMAIN answers' = DOMAIN answers \cup {IdAt(page)}
            /\ IsTrimOf(answers'[IdAt(page)], last'.value)
            /\ \A k \in DOMAIN answers \ {IdAt(page)} : answers'[k] = answers[k]
            /\ page' = page + 1
            /\ username' = username
            /\ page = N => shown'.kind \in {"result", "crash"}
            /\ page < N => (shown'.kind = "question" /\ shown'.no = page + 1) ]_vars

\* C3 witness: the padded answer " A " to the last question was recorded as
\* "A" and the result page is shown.
C3_Witness ==
    /\ last.kind = "submit" /\ last.value = <<" ", "A", " ">>
    /\ N >= 1 /\ page = N + 1 /\ shown.kind = "result"
    /\ IdAt(N) \in DOMAIN answers /\ answers[IdAt(N)] = <<"A">>

\* C4: submitting a multiple-choice question with no option selected warns
\* and changes nothing: page, answers and username stay, and the same question
\* page is shown again.
C4_NoChoiceRejected ==
    [][ (SubmitStep /\ questions[page].type = MultipleChoice
            /\ last'.value = None) =>
            /\ page' = page /\ answers' = answers /\ username' = username
            /\ shown'.kind = "question" /\ shown'.no = page
            /\ shown'.form = shown.form
            /\ shown'.msg = "choose" ]_vars

\* C4 witness: the warning after a submission without a selection.
C4_Witness ==
    /\ last.kind = "submit" /\ last.value = None
    /\ shown.kind = "question" /\ shown.msg = "choose"
    /\ questions[page].type = MultipleChoice

\* C5: submitting a subjective question with an empty or whitespace-only
\* answer warns and changes nothing: page, answers and username stay.
C5_BlankRejected ==
    [][ (SubmitStep /\ questions[page].type = Subjective
            /\ last'.value # None /\ IsBlank(last'.value)) =>
            /\ page' = page /\ answers' = answers /\ username' = username
            /\ shown'.kind = "question" /\ shown'.no = page
            /\ shown'.msg = "enter" ]_vars

\* C5 witness: the warning after a whitespace-only answer.
C5_Witness ==
    /\ last.kind = "submit" /\ last.value = <<" ">>
    /\ shown.kind = "question" /\ shown.msg = "enter"
    /\ questions[page].type = Subjective

\* C6: the restart action on the result page sets page to 0 and answers to
\* the empty map and leaves username unchanged; the start page then shows that
\* username, the result page shows the (trimmed) username, and only an edit of
\* the name field changes it.
C6_Restart ==
    [][ /\ last'.kind = "restart" =>
            /\ page' = 0 /\ DOMAIN answers' = {} /\ username' = username
            /\ shown'.kind = "start" /\ shown'.name = username
        /\ shown'.kind = "result" => IsTrimOf(shown'.name, username')
        /\ username' # username => (last'.kind = "name" /\ shown.kind = "start") ]_vars

\* C6 witness: back on the start page after a restart, with answers empty and
\* the name entered before still in the field.
C6_Witness ==
    /\ last.kind = "restart" /\ page = 0 /\ answers = <<>>
    /\ username = <<" ", "k">> /\ shown.kind = "start" /\ shown.name = username

\* C7: no script run ends in an unhandled exception, whatever list the loader
\* returned; entering the result page yields the count and one row per
\* question, also when an id is no integer.
C7_NoUnhandledException ==
    /\ shown.kind # "crash"
    /\ (page > N /\ shown.kind # "error") =>
            (shown.kind = "result" /\ Len(shown.rows) = N /\ shown.correct \in 0..N)

\* A successful submission is about to add its answer.
Accepted == SubmitStep /\ page' = page + 1

NoOverwrite ==
    /\ IdAt(page) \notin DOMAIN answers
    /\ \A k \in DOMAIN answers : k \in DOMAIN answers' /\ answers'[k] = answers[k]
    /\ Cardinality(DOMAIN answers') = page

\* C8 as stated, for every list the loader can return: a successful submission
\* adds a key that was not in answers, and after k successful submissions
\* answers has k entries.
C8_AnyList == [][Accepted => NoOverwrite]_vars

\* C8, amended: for a list whose ids are pairwise distinct, a successful
\* submission adds a key that was not in answers and keeps every entry, so
\* after k successful submissions answers has exactly k entries.
C8_NoOverwrite == [][(Accepted /\ DistinctIds) => NoOverwrite]_vars

\* C8 witness: three questions with distinct ids, all answered.
C8_Witness ==
    /\ DistinctIds /\ N = 3 /\ page = 4 /\ last.kind = "submit"
    /\ Cardinality(DOMAIN answers) = 3

Passed(k) == \E i \in 1..N : i < page /\ IdAt(i) = k

Ahead(k) == \E i \in 1..N : i >= page /\ IdAt(i) = k

\* C9 as stated: every key of answers is the id of a question before the
\* current page, and never the id of the question shown or of a later one.
C9_AnyList == \A k \in DOMAIN answers : Passed(k) /\ ~Ahead(k)

\* C9, amended: every key of answers is the id of a question at a position
\* before the current page; when the ids of the list are pairwise distinct it
\* is not the id of the question shown or of a later one.
C9_KeysPassed ==
    \A k \in DOMAIN answers : Passed(k) /\ (DistinctIds => ~Ahead(k))

\* C9 witness: on the second of several questions, answers holds the key of
\* the first only.
C9_Witness ==
    /\ DistinctIds /\ N >= 2 /\ page = 2 /\ shown.kind = "question"
    /\ DOMAIN answers = {IdAt(1)}

\* C10: the question list is created once at session start and every later
\* step uses that list, even if the source file changes during the session.
C10_LoadedOnce == [][questions' = questions]_vars

\* The source has no usable question row: it is absent, or nothing but a
\* header line is left once the blank lines are removed.
NoUsableRow(f) == ~f.exists \/ Len(NonBlank(f.lines)) <= 1

\* C11: if the question source is absent or yields no usable question row
\* (a header-only source too), the session halts with an error before any
\* start, question or result page is shown, and the session state never
\* changes.
C11_HaltsWithoutRows ==
    NoUsableRow(file) =>
        /\ shown.kind = "error"
        /\ page = 0 /\ answers = <<>> /\ username = <<>>

\* C12: no question is skipped or reordered. The page of question 1 is shown
\* by the start action only, the page of question n+1 only by a successful
\* submission on the page of question n, the page shown for number n holds the
\* n-th question of the loader's list, and the result page is entered only by
\* the successful submission on question N (by the start action when N = 0),
\* that is after one successful submission on each of the N questions.
C12_InOrder ==
    [][ /\ (shown'.kind = "question"
                /\ (shown.kind # "question" \/ shown.no # shown'.no)) =>
            \/ /\ shown'.no = 1
               /\ shown.kind = "start" /\ last'.kind = "start"
            \/ /\ shown.kind = "question" /\ shown'.no = shown.no + 1
               /\ last'.kind = "submit"
               /\ IdAt(shown.no) \in DOMAIN answers'
        /\ shown'.kind = "question" =>
            /\ shown'.no = page' /\ page' \in 1..Len(questions')
            /\ shown'.form.key = questions'[page'].id
        /\ (shown'.kind \in {"result", "crash"}
                /\ shown.kind \notin {"result", "crash"}) =>
            /\ page' = Len(questions') + 1
            /\ \/ N = 0 /\ shown.kind = "start" /\ last'.kind = "start"
               \/ /\ shown.kind = "question" /\ shown.no = N
                  /\ last'.kind = "submit"
                  /\ \A i \in 1..N : IdAt(i) \in DOMAIN answers'
        /\ (last'.kind = "submit" /\ page' # page) =>
            (shown.kind = "question" /\ shown.no = page /\ page' = page + 1) ]_vars

\* C12 witness: the result page of three questions, entered by the submission
\* on the third.
C12_Witness ==
    /\ N = 3 /\ page = 4 /\ shown.kind = "result" /\ last.kind = "submit"
    /\ shown.total = 3 /\ Len(shown.rows) = 3

\* C13: on the result page the count is the number of questions judged
\* correct against answers.get(id, ""), between 0 and N; there is one row per
\* question in the loader's order, marked O exactly when the question is
\* judged correct; and the tier is result_tier of the count.
C13_ResultComputed ==
    (page = N + 1 /\ shown.kind # "error") =>
        /\ shown.kind = "result"
        /\ shown.correct = Cardinality({i \in 1..N : Judged(answers, questions[i])})
        /\ shown.correct \in 0..N
        /\ Len(shown.rows) = N
        /\ \A i \in 1..N :
              /\ shown.rows[i].question = questions[i].question
              /\ shown.rows[i].mark = "O" <=> Judged(answers, questions[i])
        /\ shown.tier = result_tier(shown.correct).img

\* C18: on every question page some submission is accepted, so the session
\* cannot get stuck on a question and the result page stays reachable.
C18_CanProceed ==
    shown.kind = "question" =>
        \E a \in Inputs(shown.form) :
            /\ ~NoChoice(questions[page], a)
            /\ ~is_blank_subjective(questions[page], a)

\* C19: whenever the session is on the result page (page = N+1), answers has
\* an entry for the id of every question of the list, so the default of
\* answers.get is not used.
C19_AllAnswered ==
    page = N + 1 => \A i \in 1..N : IdAt(i) \in DOMAIN answers

\* C19 witness: the result page of two questions, both ids in answers.
C19_Witness ==
    /\ N = 2 /\ page = 3 /\ shown.kind = "result"
    /\ DOMAIN answers = {IdAt(1), IdAt(2)} /\ IdAt(1) # IdAt(2)

\* C20: whenever the session is on the start page (page = 0) answers is the
\* empty map, initially and after every restart; the start action does not
\* modify answers, so a traversal begins with no recorded answer.
C20_StartsEmpty ==
    /\ page = 0 => DOMAIN answers = {}
    /\ last.kind = "start" => DOMAIN answers = {}

\* C20 witness: the start page after a restart from the result page of a
\* list with questions.
C20_Witness ==
    /\ last.kind = "restart" /\ page = 0 /\ shown.kind = "start"
    /\ N >= 1 /\ DOMAIN answers = {}

----------------------------------------------------------------------------
(* Properties of load_questions, judge and result_tier *)

\* load_questions returned a list for the source of this session.
Loaded == last.kind = "open" /\ shown.kind = "start"

\* v without its surrounding spaces, chosen by IsTrimOf.
Trimmed(v) ==
    CHOOSE t \in {SubSeq(v, a, b) : a \in 1..(Len(v) + 1), b \in 0..Len(v)} :
        IsTrimOf(t, v)

\* A line of the source that holds nothing but spaces.
IsBlankRaw(ln) == Len(ln) = 0 \/ (Len(ln) = 1 /\ IsBlank(ln[1]))

\* The data lines of a source: its non-blank lines after the header line.
DataLinesOf(f) ==
    LET kept == SelectSeq(f.lines, LAMBDA ln : ~IsBlankRaw(ln))
    IN  IF kept = <<>> THEN <<>> ELSE Tail(kept)

\* The k-th cell of a data line, empty when the line is too short.
Cell(d, k) == IF k <= Len(d) THEN Trimmed(d[k]) ELSE <<>>

\* The question a data line stands for under the header
\* id,question,type,image,choice1,choice2,choice3,answer.
Expected(d) ==
    [id |-> Cell(d, 1), question |-> Cell(d, 2), type |-> Cell(d, 3),
     image |-> Cell(d, 4), choices |-> <<Cell(d, 5), Cell(d, 6), Cell(d, 7)>>,
     answer |-> Cell(d, 8)]

Unparsable(id) == ~IntParses(id)

\* C14: load_questions returns the questions in non-decreasing order of the
\* parsed integer id; every question whose id does not parse comes after
\* every question whose id parses, whatever its magnitude; the questions with
\* unparsable ids keep their order of the source.
C14_UnparsableLast ==
    Loaded =>
        /\ \A i, j \in 1..N :
              (i < j /\ ~Unparsable(IdAt(i)) /\ ~Unparsable(IdAt(j))) =>
                  int(IdAt(i)) <= int(IdAt(j))
        /\ \A i, j \in 1..N :
              (i < j /\ Unparsable(IdAt(i))) => Unparsable(IdAt(j))
        /\ SelectSeq(questions, LAMBDA q : Unparsable(q.id))
              = SelectSeq([i \in 1..Len(DataLinesOf(file)) |->
                              Expected(DataLinesOf(file)[i])],
                          LAMBDA q : Unparsable(q.id))

\* C15: result_tier maps a score <= 5 to tier 1, 6..10 to tier 2, 11..15 to
\* tier 3 and a score >= 16 to tier 4 (5, 6, 15 and 16 being the inclusive
\* boundaries), each tier with its own asset and a non-empty message.
C15_Tiers ==
    shown.kind = "tier" =>
        /\ shown.correct <= 5 => shown.tier = "result1.png"
        /\ shown.correct \in 6..10 => shown.tier = "result2.png"
        /\ shown.correct \in 11..15 => shown.tier = "result3.png"
        /\ shown.correct >= 16 => shown.tier = "result4.png"
        /\ shown.msg \notin {"", "none"}

\* C15 witness: the score 16 got the fourth tier.
C15_Witness ==
    shown.kind = "tier" /\ shown.correct = 16 /\ shown.tier = "result4.png"

CasePairs == {{"a", "A"}, {"b", "B"}, {"y", "Y"}}

SameIgnoringCase(s, t) ==
    /\ Len(s) = Len(t)
    /\ \A i \in 1..Len(s) : s[i] = t[i] \/ {s[i], t[i]} \in CasePairs

NoneAsEmpty(x) == IF x = None THEN <<>> ELSE x

\* C16: judge trims both inputs, a missing input being the empty text, and
\* compares them without regard to case for the subjective type and exactly
\* for every other type: judge("Yolo", "yolo", subjective) is true,
\* judge("Yolo", "yolo", multiple choice) is false, judge("", "", subjective)
\* is true.
C16_Judge ==
    shown.kind = "row" =>
        LET r == shown.rows[1]
            ua == Trimmed(NoneAsEmpty(r.my))
            ca == Trimmed(NoneAsEmpty(r.answer))
            Yolo == <<"Y", "o", "l", "o">>
            yolo == <<"y", "o", "l", "o">>
        IN  /\ r.mark \in {"O", "X"}
            /\ r.mark = "O" <=>
                  IF r.type = <<"S">> THEN SameIgnoringCase(ua, ca) ELSE ua = ca
            /\ (r.my = Yolo /\ r.answer = yolo /\ r.type = <<"S">>) => r.mark = "O"
            /\ (r.my = Yolo /\ r.answer = yolo /\ r.type = <<"M">>) => r.mark = "X"
            /\ (r.my = <<>> /\ r.answer = <<>> /\ r.type = <<"S">>) => r.mark = "O"

\* C16 witness: "Yolo" against the padded " yolo " of a subjective question is
\* judged correct.
C16_Witness ==
    /\ shown.kind = "row" /\ shown.rows[1].mark = "O"
    /\ shown.rows[1].my = <<"Y", "o", "l", "o">>
    /\ shown.rows[1].answer = <<" ", "y", "o", "l", "o", " ">>
    /\ shown.rows[1].type = Subjective

\* C17: for a source of a header line, data lines and blank or whitespace-only
\* lines at any places, load_questions returns as many questions as there are
\* non-blank data lines, and the questions are those the data lines stand for
\* under the header.
C17_RowsLoaded ==
    Loaded =>
        LET data == DataLinesOf(file)
        IN  /\ N = Len(data)
            /\ \A i \in 1..Len(data) :
                  Cardinality({j \in 1..N : questions[j] = Expected(data[i])})
                    = Cardinality({j \in 1..Len(data) :
                                      Expected(data[j]) = Expected(data[i])})

\* C17 witness: three questions from a source whose six lines begin with a
\* blank line.
C17_Witness ==
    /\ Loaded /\ N = 3 /\ Len(file.lines) = 6 /\ IsBlankRaw(file.lines[1])
    /\ \E i \in 2..6 : IsBlankRaw(file.lines[i])

====
